---- MODULE Spec2Model ----
(***************************************************************************)
(* A model of the region-similarity tool (src/region_similarity, and the   *)
(* Map class of src/scripts/app.py).                                       *)
(*                                                                         *)
(* The remote Earth-Engine service is an environment: every remote call    *)
(* either answers or raises, chosen nondeterministically.  Geometry is     *)
(* kept on an integer lattice and numbers are exact (no floating-point     *)
(* rounding is modelled).                                                  *)
(***************************************************************************)
EXTENDS Integers, Sequences, FiniteSets, TLC

VARIABLES
    tiling,     \* export_image / export_multiple_images (export.py)
    dist,       \* calc_distance at one pixel (search.py)
    m,          \* the Map object: session fields, layers, widgets (app.py)
    tasks,      \* the background tasks (solara @task) dispatched so far
    files,      \* the session spec files written to the public directory
    last        \* what the last entry point called by the user did

vars == <<tiling, dist, m, tasks, files, last>>

(***************************************************************************)
(* Texts (names, expressions, messages, layer names) are sequences of      *)
(* tokens; a token is a piece of text that is never split further.         *)
(***************************************************************************)
T(tok) == <<tok>>

RECURSIVE Split(_, _)
\* Python's text.split(sep).
Split(text, sep) ==
    IF \A k \in DOMAIN text : text[k] # sep
    THEN <<text>>
    ELSE LET k == CHOOSE i \in DOMAIN text :
                      text[i] = sep /\ \A h \in 1..(i-1) : text[h] # sep
         IN  <<SubSeq(text, 1, k - 1)>> \o Split(SubSeq(text, k + 1, Len(text)), sep)

RECURSIVE Join(_, _)
\* Python's sep.join(parts), and the f-strings that put sep between parts.
Join(parts, sep) ==
    IF parts = <<>> THEN <<>>
    ELSE IF Len(parts) = 1 THEN parts[1]
    ELSE parts[1] \o <<sep>> \o Join(Tail(parts), sep)

\* Python's text.replace(" ", "").
RemoveSpaces(text) == LET solid(tok) == tok # " " IN SelectSeq(text, solid)

RECURSIVE Contains(_, _)
\* Python's `sub in text` on texts.
Contains(text, sub) ==
    IF Len(sub) > Len(text) THEN FALSE
    ELSE IF SubSeq(text, 1, Len(sub)) = sub THEN TRUE
    ELSE Contains(Tail(text), sub)

(***************************************************************************)
(* helpers.py : message                                                    *)
(***************************************************************************)
\* message(m, text, False): append_stdout, unless the text is empty.
MessageAppend(outputs, text) ==
    IF text # <<>> THEN Append(outputs, text) ELSE outputs

\* message(m, text, True, duration): after the sleep, every entry whose text
\* equals the text is dropped from the outputs.
MessageClear(outputs, text) ==
    LET other(e) == e # text IN SelectSeq(outputs, other)

Min(S) == CHOOSE x \in S : \A y \in S : x <= y
Max(S) == CHOOSE x \in S : \A y \in S : x >= y

(***************************************************************************)
(* export.py : tiling of the query region and the per-cell export          *)
(*                                                                         *)
(* Coordinates are integers in units of 1/meters_per_degree of a degree,   *)
(* so that cell_size = 1000 * resolution / meters_per_degree degrees is    *)
(* the integer 1000 * resolution.  A query region is a union of closed     *)
(* squares ("pixels") of half a cell, given by their lattice index <<a,b>>.*)
(***************************************************************************)
resolution == 1000
meters_per_degree == 111320
cell_size == 1000 * resolution

\* Bounds of the lattice the query regions are drawn on, and of the number
\* of per-cell download requests the remote service may refuse in one export.
GridW == 4
GridH == 3
MaxCellErrors == 2

Step == cell_size \div 2

PixelBox(p) ==
    [x1 |-> p[1] * Step, y1 |-> p[2] * Step,
     x2 |-> (p[1] + 1) * Step, y2 |-> (p[2] + 1) * Step]

RectPixels(a1, a2, b1, b2) == (a1..a2) \X (b1..b2)

\* The regions m.qr may hold: a rectangle anchored at the lattice origin
\* united with any other rectangle (rectangles, L- and T-shapes, and
\* multi-part regions).
QueryRegions ==
    { RectPixels(0, a, 0, b) \cup RectPixels(c1, c2, d1, d2) :
        <<a, b, c1, c2, d1, d2>> \in
            { t \in (0..GridW-1) \X (0..GridH-1) \X (0..GridW-1) \X (0..GridW-1)
                    \X (0..GridH-1) \X (0..GridH-1) :
                t[3] <= t[4] /\ t[5] <= t[6] } }

\* m.qr.bounds().getInfo()["coordinates"][0] and the min/max over it.
Bounds(qr) ==
    [x_min |-> Min({PixelBox(p).x1 : p \in qr}),
     x_max |-> Max({PixelBox(p).x2 : p \in qr}),
     y_min |-> Min({PixelBox(p).y1 : p \in qr}),
     y_max |-> Max({PixelBox(p).y2 : p \in qr})]

\* qr_geom = Polygon(zip(x_coords, y_coords)): the polygon built from the
\* corner coordinates of the bounding box, i.e. the bounding rectangle.
QrGeom(b) == [x1 |-> b.x_min, y1 |-> b.y_min, x2 |-> b.x_max, y2 |-> b.y_max]

\* shapely's intersects on two closed axis-aligned rectangles
\* (boundary contact counts).
BoxIntersects(c, g) ==
    /\ c.x1 <= g.x2 /\ g.x1 <= c.x2
    /\ c.y1 <= g.y2 /\ g.y1 <= c.y2

\* A plausible slip: the number of cells without the "+ 1".
NumCellsTruncated(extent) == extent \div cell_size

\* int((max - min) / cell_size) + 1
NumCells(extent) == (extent \div cell_size) + 1

Cell(b, i, j) ==
    [x1 |-> b.x_min + i * cell_size, y1 |-> b.y_min + j * cell_size,
     x2 |-> b.x_min + (i + 1) * cell_size, y2 |-> b.y_min + (j + 1) * cell_size,
     i |-> i, j |-> j]

\* split_geometry: i outer, j inner; a cell is kept when it intersects qr_geom.
split_geometry(b, x_cells, y_cells) ==
    LET all == [k \in 1..(x_cells * y_cells) |->
                    Cell(b, (k - 1) \div y_cells, (k - 1) % y_cells)]
        keep(c) == BoxIntersects(c, QrGeom(b))
    IN  SelectSeq(all, keep)

TilingIdle(qr) ==
    [pc |-> "idle", qr |-> qr, x_cells |-> 0, y_cells |-> 0, cells |-> <<>>,
     single_calls |-> 0, multi_calls |-> 0, idx |-> 0, urls |-> <<>>,
     errors |-> <<>>, url_file |-> "none"]

\* export_image, for a session that has results to export (m.feature_img and
\* m.distances / m.clustered are images and m.qr is set).
export_image ==
    /\ tiling.pc = "idle"
    /\ LET b == Bounds(tiling.qr)
           x_cells == NumCells(b.x_max - b.x_min)
           y_cells == NumCells(b.y_max - b.y_min)
       IN  IF x_cells <= 1 /\ y_cells <= 1
           THEN tiling' = [tiling EXCEPT !.pc = "single",
                               !.x_cells = x_cells, !.y_cells = y_cells,
                               !.single_calls = @ + 1]
           ELSE tiling' = [tiling EXCEPT !.pc = "multi",
                               !.x_cells = x_cells, !.y_cells = y_cells,
                               !.cells = split_geometry(b, x_cells, y_cells),
                               !.multi_calls = @ + 1]

\* export_single_image: one getDownloadURL over the whole of m.qr.
export_single_image ==
    /\ tiling.pc = "single"
    /\ \E ok \in BOOLEAN :
         tiling' = [tiling EXCEPT !.pc = "done",
                        !.urls = IF ok THEN <<0>> ELSE <<>>,
                        !.errors = IF ok THEN <<>> ELSE <<0>>]

\* A plausible slip: the try around the whole loop, so that the first
\* failure ends it.
export_cell_first_failure_ends ==
    /\ tiling.pc = "multi"
    /\ tiling.idx < Len(tiling.cells)
    /\ \E ok \in BOOLEAN :
         /\ ~ok => Len(tiling.errors) < MaxCellErrors
         /\ tiling' = [tiling EXCEPT !.idx = IF ok THEN @ + 1 ELSE Len(tiling.cells),
                           !.urls = IF ok THEN Append(@, tiling.idx) ELSE @,
                           !.errors = IF ok THEN @ ELSE Append(@, tiling.idx + 1)]

\* export_multiple_images, one iteration of its loop over the cells: the
\* request for cell idx answers with a URL or raises.
export_cell ==
    /\ tiling.pc = "multi"
    /\ tiling.idx < Len(tiling.cells)
    /\ \E ok \in BOOLEAN :
         /\ ~ok => Len(tiling.errors) < MaxCellErrors
         /\ tiling' = [tiling EXCEPT !.idx = @ + 1,
                           !.urls = IF ok THEN Append(@, tiling.idx) ELSE @,
                           !.errors = IF ok THEN @ ELSE Append(@, tiling.idx + 1)]

\* export_multiple_images after the loop: the URL list is written and announced.
export_write_urls ==
    /\ tiling.pc = "multi"
    /\ tiling.idx = Len(tiling.cells)
    /\ tiling' = [tiling EXCEPT !.pc = "done", !.url_file = "written"]

(***************************************************************************)
(* search.py : calc_distance                                               *)
(*                                                                         *)
(* One pixel of the image is a vector x of band values, mean_vector is the *)
(* vector r.  Band values are integers; the numbers calc_distance builds   *)
(* from them are kept exactly, as p + (n / d) * sqrt(s) with integers      *)
(* p, n, d > 0 and s >= 0.                                                 *)
(***************************************************************************)
\* Bounds of the pixel vectors: number of bands and size of a band value.
MaxBands == 2
MaxVal == 2

DistanceFunctions == {"Euclidean", "Manhattan", "Cosine"}

Vectors(n) == [1..n -> (-MaxVal)..MaxVal]

Whole(i) == [p |-> i, n |-> 0, d |-> 1, s |-> 0]
\* ee.Image.sqrt of a non-negative integer.
Sqrt(s) == [p |-> 0, n |-> 1, d |-> 1, s |-> s]
\* The product of two square roots.
MultiplyRoots(u, v) == Sqrt(u.s * v.s)
\* ee.Image.divide of an integer by a square root; division by 0 yields 0.
Divide(i, root) ==
    IF root.s = 0 THEN Whole(0) ELSE [p |-> 0, n |-> i, d |-> root.s, s |-> root.s]
\* ee.Image.constant(c).subtract(v)
SubtractFrom(c, v) == [p |-> c - v.p, n |-> 0 - v.n, d |-> v.d, s |-> v.s]

Sign(i) == IF i > 0 THEN 1 ELSE IF i < 0 THEN -1 ELSE 0
Abs(i) == IF i < 0 THEN 0 - i ELSE i

\* Whether the number p + (n / d) * sqrt(s) is 0.
IsZero(v) ==
    IF v.n = 0 \/ v.s = 0
    THEN v.p = 0
    ELSE /\ Sign(v.n) = 0 - Sign(v.p)
         /\ v.n * v.n * v.s = v.p * v.p * v.d * v.d

RECURSIVE ReduceSum(_)
ReduceSum(v) == IF v = <<>> THEN 0 ELSE Head(v) + ReduceSum(Tail(v))

Pow2(v) == [k \in DOMAIN v |-> v[k] * v[k]]

\* A plausible slip: the Euclidean branch adds the mean instead of
\* subtracting it.
calc_distance_added(image, mean_vector, fun) ==
    LET roi_mean == mean_vector
    IN  CASE fun = "Euclidean" ->
                LET diff == [k \in DOMAIN image |-> image[k] + roi_mean[k]]
                IN  Sqrt(ReduceSum(Pow2(diff)))
          [] fun = "Manhattan" ->
                Whole(ReduceSum([k \in DOMAIN image |-> Abs(image[k] + roi_mean[k])]))
          [] fun = "Cosine" ->
                Whole(1)

calc_distance(image, mean_vector, fun) ==
    LET roi_mean == mean_vector
    IN  CASE fun = "Euclidean" ->
                LET diff == [k \in DOMAIN image |-> image[k] - roi_mean[k]]
                    squared_diff == Pow2(diff)
                IN  Sqrt(ReduceSum(squared_diff))
          [] fun = "Manhattan" ->
                LET diff == [k \in DOMAIN image |-> Abs(image[k] - roi_mean[k])]
                IN  Whole(ReduceSum(diff))
          [] fun = "Cosine" ->
                LET dot_product ==
                        ReduceSum([k \in DOMAIN image |-> image[k] * roi_mean[k]])
                    image_norm == Sqrt(ReduceSum(Pow2(image)))
                    mean_norm == Sqrt(ReduceSum(Pow2(roi_mean)))
                    cosine_similarity ==
                        Divide(dot_product, MultiplyRoots(image_norm, mean_norm))
                IN  SubtractFrom(1, cosine_similarity)

DistIdle == [pc |-> "off", x |-> <<>>, r |-> <<>>, fun |-> "Euclidean",
             distance |-> Whole(0)]

\* search, the body of its loop at one pixel: the distance of the pixel
\* vector x to the reference mean vector r under m.distance_fun.
search_pixel ==
    /\ dist.pc = "input"
    /\ dist' = [dist EXCEPT !.pc = "done",
                    !.distance = calc_distance(dist.x, dist.r, dist.fun)]

(***************************************************************************)
(* variables.py : async_add_alias,  features.py : async_add_feature        *)
(*                                                                         *)
(* A task is one invocation of a retry wrapper in its own thread.  Its     *)
(* Pool(processes=1) is the list jobs: one entry per apply_async, each     *)
(* "queued", "running", "ok" or "err"; the pool's single worker runs the   *)
(* jobs one at a time in submission order.                                 *)
(***************************************************************************)
attempts == 3
timeout_seconds == 10

\* Bound of the number of background tasks dispatched in one run.
MaxTasks == 1

\* The alias stands between backquotes in the code's text.
LoadingText(alias) == T("[Background task] Loading ") \o alias \o T("...")
AttemptText(attempt) ==
    <<"Attempt ", CASE attempt = 0 -> "1" [] attempt = 1 -> "2" [] OTHER -> "3",
      " failed. Retrying...">>
ConsiderText == T("Consider a lower resolution.")

NewTask(kind, alias) ==
    [kind |-> kind, alias |-> alias, pc |-> "dispatched", attempt |-> 0,
     jobs |-> <<>>, waited |-> 0, layer_adds |-> 0, added_on |-> "none",
     terminal_reports |-> 0, outcome |-> "none"]

\* m.addLayer(ds, viz, alias): geemap replaces a layer of the same name.
AddLayer(layers, name, of) ==
    {l \in layers : l.name # name} \cup {[name |-> name, of |-> of]}

\* The wrapper up to its loop: the loading message and the pool.
TaskStart(t) ==
    /\ tasks[t].pc = "dispatched"
    /\ m' = [m EXCEPT !.output_widget = MessageAppend(@, LoadingText(tasks[t].alias))]
    /\ tasks' = [tasks EXCEPT ![t].pc = "loop"]

\* result = pool.apply_async(...)
ApplyAsync(t) ==
    /\ tasks[t].pc = "loop"
    /\ tasks[t].attempt < attempts
    /\ tasks' = [tasks EXCEPT ![t].pc = "get", ![t].jobs = Append(@, "queued"),
                              ![t].waited = 0]
    /\ UNCHANGED m

\* The pool's worker takes the oldest queued job when it is free: the remote
\* evaluation (run_add_alias / run_check_feature_img) starts.
WorkerPick(t) ==
    LET jobs == tasks[t].jobs IN
    /\ \A k \in DOMAIN jobs : jobs[k] # "running"
    /\ \E k \in DOMAIN jobs :
         /\ jobs[k] = "queued"
         /\ \A h \in 1..(k-1) : jobs[h] # "queued"
         /\ tasks' = [tasks EXCEPT ![t].jobs[k] = "running"]
    /\ UNCHANGED m

\* The remote evaluation of the running job answers ("ok") or raises ("err").
WorkerDone(t) ==
    /\ \E k \in DOMAIN tasks[t].jobs :
         /\ tasks[t].jobs[k] = "running"
         /\ \E res \in {"ok", "err"} :
              tasks' = [tasks EXCEPT ![t].jobs[k] = res]
    /\ UNCHANGED m

\* The except branch, first half: the "Attempt k failed" message is shown.
Failed(t, waited) ==
    /\ m' = [m EXCEPT !.output_widget = MessageAppend(@, AttemptText(tasks[t].attempt))]
    /\ tasks' = [tasks EXCEPT ![t].pc = "failed", ![t].waited = waited]

\* The try branch after result.get returned: m.addLayer answers or raises.
Got(t, waited) ==
    \E layer_ok \in BOOLEAN :
        IF layer_ok
        THEN /\ m' = [m EXCEPT !.layers = AddLayer(@, tasks[t].alias, tasks[t].kind)]
             /\ tasks' = [tasks EXCEPT ![t].pc = "added", ![t].waited = waited,
                              ![t].layer_adds = @ + 1,
                              ![t].added_on = tasks[t].jobs[tasks[t].attempt + 1]]
        ELSE Failed(t, waited)

\* A plausible slip: result.get() without a timeout never raises TimeoutError.
GetTimeoutNever(t) == FALSE /\ UNCHANGED <<m, tasks>>

\* result.get(timeout=timeout_seconds) while the job has not finished:
\* TimeoutError after timeout_seconds.
GetTimeout(t) ==
    /\ tasks[t].pc = "get"
    /\ tasks[t].jobs[tasks[t].attempt + 1] \in {"queued", "running"}
    /\ Failed(t, timeout_seconds)

\* result.get(timeout=timeout_seconds) when the job has finished within the
\* timeout.  run_add_alias lets the remote error through, so result.get
\* re-raises it; run_check_feature_img catches it and returns False, which
\* async_add_feature does not look at.
GetResult(t) ==
    /\ tasks[t].pc = "get"
    /\ tasks[t].jobs[tasks[t].attempt + 1] \in {"ok", "err"}
    /\ \E waited \in {0, timeout_seconds} :
         IF tasks[t].kind = "alias" /\ tasks[t].jobs[tasks[t].attempt + 1] = "err"
         THEN Failed(t, waited)
         ELSE Got(t, waited)

\* After the layer was added: the loading message is cleared, return.
ClearLoading(t) ==
    /\ tasks[t].pc = "added"
    /\ m' = [m EXCEPT !.output_widget = MessageClear(@, LoadingText(tasks[t].alias))]
    /\ tasks' = [tasks EXCEPT ![t].pc = "done", ![t].outcome = "added"]

\* The except branch, second half: the attempt message is cleared; on the
\* last attempt the loading message is cleared and the terminal message
\* shown, otherwise the loop continues.
AfterFailed(t) ==
    /\ tasks[t].pc = "failed"
    /\ IF tasks[t].attempt = attempts - 1
       THEN /\ m' = [m EXCEPT !.output_widget =
                        MessageAppend(
                            MessageClear(MessageClear(@, AttemptText(tasks[t].attempt)),
                                         LoadingText(tasks[t].alias)),
                            ConsiderText)]
            /\ tasks' = [tasks EXCEPT ![t].pc = "terminal",
                                      ![t].terminal_reports = @ + 1]
       ELSE /\ m' = [m EXCEPT !.output_widget =
                        MessageClear(@, AttemptText(tasks[t].attempt))]
            /\ tasks' = [tasks EXCEPT ![t].pc = "loop", ![t].attempt = @ + 1]

\* The terminal message is cleared, return.
ClearTerminal(t) ==
    /\ tasks[t].pc = "terminal"
    /\ m' = [m EXCEPT !.output_widget = MessageClear(@, ConsiderText)]
    /\ tasks' = [tasks EXCEPT ![t].pc = "done", ![t].outcome = "exhausted"]

\* One step of the thread that runs the wrapper.
TaskStep(t) ==
    \/ TaskStart(t)
    \/ ApplyAsync(t)
    \/ GetResult(t)
    \/ GetTimeout(t)
    \/ ClearLoading(t)
    \/ AfterFailed(t)
    \/ ClearTerminal(t)

\* One step of the pool's worker process.
WorkerStep(t) == WorkerPick(t) \/ WorkerDone(t)

(***************************************************************************)
(* search.py : async_add_clusters, async_add_distance_map                  *)
(*                                                                         *)
(* Each runs in a thread of its own with no try: an exception ends the     *)
(* thread where it is raised.  The slider is a bounded float widget: it    *)
(* keeps min <= value <= max when one of the three is assigned.            *)
(***************************************************************************)
ResultText(kind) ==
    IF kind = "clusters" THEN T("[Background task] Creating clusters...")
    ELSE T("[Background task] Calculating distance maps...")

SetSliderValue(sl, v) == [sl EXCEPT !.value = Max({sl.min, Min({v, sl.max})})]
SetSliderMin(sl, v) == [sl EXCEPT !.min = v, !.value = Max({@, v})]
SetSliderMax(sl, v) == [sl EXCEPT !.max = v, !.value = Min({@, v})]

\* What the remote service answers for the least and the greatest average
\* distance in the query region, in hundredths.
SliderAnswers == {[min_val |-> 10, max_val |-> 90], [min_val |-> 340, max_val |-> 400]}

\* The assignments of async_add_distance_map to the slider, in their order.
UpdateSlider(sl, a) ==
    LET s1 == IF a.min_val >= sl.max
              THEN SetSliderMin(SetSliderMax(sl, a.max_val), a.min_val)
              ELSE SetSliderMax(SetSliderMin(sl, a.min_val), a.max_val)
        s2 == SetSliderValue(s1, (a.min_val + a.max_val) \div 2)
        s3 == SetSliderMin(s2, a.min_val - (a.max_val - a.min_val) \div 10)
    IN  SetSliderMax(SetSliderMin(s3, a.min_val), a.max_val)

\* The exception ends the thread: nothing after it runs.
Dies(t) == tasks' = [tasks EXCEPT ![t].pc = "dead", ![t].outcome = "died"]

\* message(m, "[Background task] ...", False)
ResultStart(t) ==
    /\ tasks[t].pc = "dispatched"
    /\ m' = [m EXCEPT !.output_widget = MessageAppend(@, ResultText(tasks[t].kind))]
    /\ tasks' = [tasks EXCEPT ![t].pc = IF tasks[t].kind = "distance"
                                        THEN "reduce" ELSE "layer"]

\* The two reduceRegion(...).getInfo() on m.average_distance as it is now,
\* then the slider; update_map, which observes the slider's value, adds the
\* thresholded layer.
DistanceReduce(t) ==
    /\ tasks[t].pc = "reduce"
    /\ IF m.average_distance # "image"
       THEN Dies(t) /\ UNCHANGED m
       ELSE \/ Dies(t) /\ UNCHANGED m
            \/ \E a \in SliderAnswers :
                 LET sl == UpdateSlider(m.max_value_slider, a) IN
                 /\ m' = [m EXCEPT !.max_value_slider = sl,
                                   !.layers = IF sl.value # m.max_value_slider.value
                                              THEN AddLayer(@, T("Average Distance"), "distance")
                                              ELSE @]
                 /\ tasks' = [tasks EXCEPT ![t].pc = "layer"]

\* m.addLayer(m.clustered / m.average_distance, ..., name) on the image the
\* Map holds now.
ResultAddLayer(t) ==
    LET image == IF tasks[t].kind = "clusters" THEN m.clustered
                 ELSE m.average_distance IN
    /\ tasks[t].pc = "layer"
    /\ IF image # "image"
       THEN Dies(t) /\ UNCHANGED m
       ELSE \/ Dies(t) /\ UNCHANGED m
            \/ /\ m' = [m EXCEPT !.layers = AddLayer(@, tasks[t].alias, tasks[t].kind)]
               /\ tasks' = [tasks EXCEPT ![t].pc = "added", ![t].layer_adds = @ + 1]

\* message(m, "[Background task] ...", True)
ResultClear(t) ==
    /\ tasks[t].pc = "added"
    /\ m' = [m EXCEPT !.output_widget = MessageClear(@, ResultText(tasks[t].kind))]
    /\ tasks' = [tasks EXCEPT ![t].pc = "done", ![t].outcome = "added"]

\* One step of the thread that runs async_add_clusters or
\* async_add_distance_map.
ResultStep(t) ==
    /\ tasks[t].kind \in {"clusters", "distance"}
    /\ \/ ResultStart(t)
       \/ DistanceReduce(t)
       \/ ResultAddLayer(t)
       \/ ResultClear(t)

\* A thread that returned or died is gone.
TaskJoin(t) ==
    /\ tasks[t].pc \in {"done", "dead"}
    /\ tasks' = [k \in 1..(Len(tasks) - 1) |-> IF k < t THEN tasks[k] ELSE tasks[k + 1]]
    /\ UNCHANGED m

(***************************************************************************)
(* app.py : the Map object after construction                              *)
(*                                                                         *)
(* A geometry keeps its GeoJSON type and its coordinates as a tree: a ring *)
(* (a list of points) is a leaf with the ring's number, every other list   *)
(* is a node with its items.                                               *)
(***************************************************************************)
Ring(i) == [leaf |-> i, kids |-> <<>>]
List(items) == [leaf |-> 0, kids |-> items]
IsRing(tree) == tree.leaf # 0
\* Python's truth value of a (nested) list.
Truthy(tree) == IsRing(tree) \/ tree.kids # <<>>

None == [type |-> "None", coordinates |-> List(<<>>)]
Polygon(rings) == [type |-> "Polygon", coordinates |-> List(rings)]
MultiPolygon(polygons) == [type |-> "MultiPolygon", coordinates |-> List(polygons)]

RECURSIVE Rings(_)
\* The coordinate rings of a coordinates tree, in order.
Rings(tree) ==
    IF IsRing(tree) THEN <<tree.leaf>>
    ELSE IF tree.kids = <<>> THEN <<>>
    ELSE Rings(Head(tree.kids)) \o Rings(List(Tail(tree.kids)))

\* A date, and the formats the code moves it through.
Date(y, mo, d) == [y |-> y, m |-> mo, d |-> d]
DefaultDate == Date("2000", "01", "01")
OtherDate == Date("2021", "03", "15")
\* date.isoformat()
IsoFormat(date) == <<date.y, "-", date.m, "-", date.d>>
\* datetime.strptime(text, "%Y-%m-%d").date()
ParseIso(text) == Date(text[1], text[3], text[5])
\* date.strftime("%d/%m/%Y")
FormatDMY(date) == <<date.d, "/", date.m, "/", date.y>>
\* datetime.strptime(text, "%d/%m/%Y").date()
ParseDMY(text) == Date(text[5], text[3], text[1])
IsDMY(text) == Len(text) = 5 /\ text[2] = "/" /\ text[4] = "/"

BaseLayer == [name |-> T("OpenStreetMap"), of |-> "base"]

\* Map.__init__: initialize_map, create_widgets, add_layers.
InitialMap ==
    [layers |-> {BaseLayer},
     output_widget |-> <<>>,
     qr_set |-> FALSE, roi_set |-> FALSE,
     qr |-> None, roi |-> None,
     distances |-> "None", average_distance |-> "unset",
     feature_img |-> "unset", clustered |-> "unset",
     start |-> DefaultDate, end |-> DefaultDate,
     aliases |-> <<>>, features |-> <<>>,
     mask |-> "All", distance_fun |-> "Euclidean", cluster |-> FALSE,
     cluster_checkbox |-> [value |-> FALSE],
     num_clusters |-> [value |-> 3, disabled |-> TRUE],
     search_button |-> [description |-> "Search!"],
     set_roi_button |-> [disabled |-> FALSE],
     roi_upload_button |-> [disabled |-> FALSE],
     set_region_button |-> [disabled |-> FALSE],
     \* the threshold slider, in hundredths: value=3.3, min=0.33, max=3.3
     max_value_slider |-> [disabled |-> FALSE, value |-> 330, min |-> 33, max |-> 330],
     mask_dropdown |-> [value |-> "All"],
     distance_dropdown |-> [value |-> "Euclidean"],
     start_date |-> [value |-> DefaultDate],
     end_date |-> [value |-> DefaultDate]]

(***************************************************************************)
(* What a call of a handler yields: the Map after it, the background tasks *)
(* it dispatched, the files it wrote, whether an exception left it, and    *)
(* what it reported.                                                       *)
(***************************************************************************)
Ret(mm) ==
    [m |-> mm, spawned |-> <<>>, written |-> <<>>, raised |-> FALSE,
     outcome |-> "ok", text |-> <<>>, warnings |-> 0, ran |-> "none",
     trained |-> "none"]

\* message(m, text, False) followed by message(m, text, True, ...).
Say(mm, text) ==
    [mm EXCEPT !.output_widget = MessageClear(MessageAppend(@, text), text)]

Reported(mm, text, outcome) ==
    [Ret(Say(mm, text)) EXCEPT !.outcome = outcome, !.text = text]
\* The handlers' `except Exception as e:` branches that call message(m, ...).
Caught(mm) == Reported(mm, T("Error: ..."), "error_reported")
\* An exception that no handler of the entry point catches.
Raised(mm) == [Ret(mm) EXCEPT !.raised = TRUE, !.outcome = "raised"]

\* The dicts m.aliases and m.features keep insertion order: sequences of
\* entries with a name.
Keys(d) == {d[k].name : k \in DOMAIN d}
Put(d, entry) ==
    IF entry.name \in Keys(d)
    THEN [k \in DOMAIN d |-> IF d[k].name = entry.name THEN entry ELSE d[k]]
    ELSE Append(d, entry)
Del(d, name) == LET other(e) == e.name # name IN SelectSeq(d, other)

\* m.add_gdf(..., layer name): a layer of the region.
AddRegionLayer(layers, name) == AddLayer(layers, T(name), "region")
WithoutDrawn(layers) == {l \in layers : l.name # T("Drawn Features")}

(***************************************************************************)
(* regions.py                                                              *)
(***************************************************************************)
\* What the draw control may hold: nothing, one polygon, two polygons.
DrawnShapes ==
    { <<>>, <<List(<<Ring(1)>>)>>, <<List(<<Ring(1)>>), List(<<Ring(2)>>)>> }

\* What an uploaded file may hold: no file, an unreadable file (0 shapes),
\* shapes whose union is a polygon, shapes whose union is a multipolygon.
Uploads ==
    { [file |-> FALSE, readable |-> FALSE, union |-> None],
      [file |-> TRUE, readable |-> FALSE, union |-> None],
      [file |-> TRUE, readable |-> TRUE, union |-> Polygon(<<Ring(3)>>)],
      [file |-> TRUE, readable |-> TRUE,
       union |-> MultiPolygon(<<List(<<Ring(3)>>), List(<<Ring(4)>>)>>)] }

\* A plausible slip: a new query region discards the aliases clipped to the
\* old one.
set_search_region_drops_aliases(mm, drawn) ==
    IF Len(drawn) = 0
    THEN Reported(mm, T("Please draw a reference region on the map."), "rejected")
    ELSE Ret([mm EXCEPT !.qr = MultiPolygon(drawn),
                        !.layers = WithoutDrawn(AddRegionLayer(@, "Query Region")),
                        !.qr_set = TRUE, !.aliases = <<>>])

set_search_region(mm, drawn) ==
    IF Len(drawn) = 0
    THEN Reported(mm, T("Please draw a reference region on the map."), "rejected")
    ELSE Ret([mm EXCEPT !.qr = MultiPolygon(drawn),
                        !.layers = WithoutDrawn(AddRegionLayer(@, "Query Region")),
                        !.qr_set = TRUE])

set_region_of_interest(mm, drawn) ==
    IF Len(drawn) = 0
    THEN Reported(mm, T("Please draw a reference region on the map."), "rejected")
    ELSE Ret([mm EXCEPT !.roi = MultiPolygon(drawn),
                        !.layers = WithoutDrawn(AddRegionLayer(@, "Reference Region")),
                        !.roi_set = TRUE])

handle_upload_change(mm, up) ==
    IF ~up.file THEN [Ret(mm) EXCEPT !.outcome = "rejected"]
    ELSE IF ~up.readable THEN Caught(mm)
    ELSE Ret([mm EXCEPT !.qr = up.union,
                        !.layers = AddRegionLayer(@, "Query Region"),
                        !.qr_set = TRUE])

handle_roi_upload_change(mm, up) ==
    IF ~up.file THEN [Ret(mm) EXCEPT !.outcome = "rejected"]
    ELSE IF ~up.readable THEN Caught(mm)
    ELSE Ret([mm EXCEPT !.roi = up.union,
                        !.layers = AddRegionLayer(@, "Reference Region"),
                        !.roi_set = TRUE])

(***************************************************************************)
(* map.py                                                                  *)
(***************************************************************************)
update_distance_dropdown(mm, new) == [mm EXCEPT !.distance_fun = new]
update_mask_dropdown(mm, new) == [mm EXCEPT !.mask = new]

handle_clustering_change(mm, new) ==
    IF new
    THEN [mm EXCEPT !.cluster = TRUE,
                    !.search_button.description = "Cluster!",
                    !.set_roi_button.disabled = TRUE,
                    !.roi_upload_button.disabled = TRUE,
                    !.max_value_slider.disabled = TRUE,
                    !.num_clusters.disabled = FALSE]
    ELSE [mm EXCEPT !.cluster = FALSE,
                    !.search_button.description = "Search!",
                    !.set_roi_button.disabled = FALSE,
                    !.roi_upload_button.disabled = FALSE,
                    !.max_value_slider.disabled = FALSE,
                    !.num_clusters.disabled = TRUE]

\* A plausible slip: the checkbox without its observer.
SetClusterCheckboxUnobserved(mm, new) == [mm EXCEPT !.cluster_checkbox.value = new]

\* Assigning a widget's value calls its observer when the value changes.
SetClusterCheckbox(mm, new) ==
    IF mm.cluster_checkbox.value = new THEN mm
    ELSE handle_clustering_change([mm EXCEPT !.cluster_checkbox.value = new], new)
SetMaskDropdown(mm, new) ==
    IF mm.mask_dropdown.value = new THEN mm
    ELSE update_mask_dropdown([mm EXCEPT !.mask_dropdown.value = new], new)
SetDistanceDropdown(mm, new) ==
    IF mm.distance_dropdown.value = new THEN mm
    ELSE update_distance_dropdown([mm EXCEPT !.distance_dropdown.value = new], new)
SetStartDate(mm, new) == [mm EXCEPT !.start_date.value = new, !.start = new]
SetEndDate(mm, new) == [mm EXCEPT !.end_date.value = new, !.end = new]

\* reset_map up to its line 143.
ResetFields(mm) ==
    LET m1 == [mm EXCEPT
                 !.layers = {l \in @ : Contains(l.name, T("Satellite"))
                                         \/ Contains(l.name, T("OpenStreetMap"))},
                 !.output_widget = <<>>,
                 !.qr_set = FALSE, !.roi_set = FALSE,
                 !.qr = None, !.roi = None,
                 !.distances = "None", !.average_distance = "None"]
        m2 == update_mask_dropdown(SetMaskDropdown(m1, "All"), "All")
        m3 == update_distance_dropdown(SetDistanceDropdown(m2, "Euclidean"), "Euclidean")
        m4 == [m3 EXCEPT !.aliases = <<>>, !.features = <<>>]
        m5 == SetClusterCheckbox(handle_clustering_change(m4, FALSE), FALSE)
        m6 == SetEndDate(SetStartDate([m5 EXCEPT !.set_region_button.disabled = FALSE],
                                      DefaultDate), DefaultDate)
    IN  [m6 EXCEPT !.max_value_slider = SetSliderValue(@, 330)]

\* A plausible slip: reset_map without `m.aliases = dict()`.
reset_map_keeps_aliases(mm) ==
    Caught([ResetFields(mm) EXCEPT !.aliases = mm.aliases])

\* reset_map: m.download_bar, which the Map never creates, raises at line
\* 144 after every field has been reset; the handler reports it.
reset_map(mm) == Caught(ResetFields(mm))

(***************************************************************************)
(* variables.py : add_alias, remove_alias;  features.py : add_feature,     *)
(* remove_feature                                                          *)
(***************************************************************************)
\* The two results of a handler that called another: the later Map and
\* report, the tasks, files and warnings of both.
Merge(r, x) ==
    [x EXCEPT !.spawned = r.spawned \o x.spawned,
              !.written = r.written \o x.written,
              !.warnings = r.warnings + x.warnings]

AggFuns ==
    {T("LAST"), T("FIRST"), T("MAX"), T("MIN"), T("MEAN"), T("MEDIAN"),
     T("SUM"), T("MODE")}

\* What the remote service answers to add_alias: the dataset is an image
\* ("image"), it is a collection with images in the period and region
\* ("collection"), the collection is empty ("empty"), or a call raises
\* ("error").
RemoteAnswers == {"image", "collection", "empty", "error"}

\* a: the alias, dataset, layer and aggregation the call works with (its
\* arguments, or else what the form's widgets hold) and the period given.
add_alias(mm, a, answer) ==
    IF a.alias = <<>> THEN Raised(mm)
    ELSE IF a.dataset = <<>> \/ a.layer = <<>>
    THEN Reported(mm, T("Please select a dataset and layer."), "rejected")
    ELSE IF mm.roi # None /\ mm.qr = None THEN Caught(mm)
    ELSE IF answer = "error" THEN Caught(mm)
    ELSE LET start_date == IsoFormat(IF a.given THEN a.start ELSE mm.start)
             end_date == IsoFormat(IF a.given THEN a.end ELSE mm.end)
             is_image == a.agg_fun = T("LAST") /\ answer = "image"
             entry == [name |-> a.alias, dataset |-> a.dataset, layer |-> a.layer,
                       agg_fun |-> a.agg_fun, start |-> start_date,
                       end |-> end_date, ds |-> [qr |-> mm.qr, roi |-> mm.roi]]
         IN  IF ~is_image /\ answer = "empty"
             THEN Reported(mm,
                      T("No data available for the selected region and time period."),
                      "no_data")
             ELSE IF ~is_image /\ a.agg_fun \notin AggFuns
             THEN Reported(mm, T("aggregation function ") \o a.agg_fun \o T(" is invalid"),
                           "rejected")
             ELSE [Ret([mm EXCEPT !.aliases = Put(@, entry)])
                     EXCEPT !.spawned = <<NewTask("alias", a.alias)>>]

\* Whether the remote service can evaluate the expression over the aliases:
\* it is an alias, or a sum of aliases.
Evaluates(expression, aliases) ==
    \/ expression \in Keys(aliases)
    \/ LET terms == Split(expression, "+")
       IN  \A k \in DOMAIN terms : terms[k] \in Keys(aliases)

add_feature(mm, udf, mean_ok) ==
    IF udf = <<>> THEN Reported(mm, T("Please enter a UDF."), "rejected")
    ELSE IF ~Contains(udf, T(":"))
    THEN Reported(mm, T("Please enter a valid UDF expression. Template: ..."),
                  "rejected")
    ELSE LET parts == Split(RemoveSpaces(udf), ":") IN
         IF Len(parts) # 2 THEN Raised(mm)
         ELSE IF mm.roi # None /\ mm.qr = None THEN Caught(mm)
         ELSE IF mm.aliases = <<>> THEN Caught(mm)
         ELSE IF ~(mean_ok /\ Evaluates(parts[2], mm.aliases))
         THEN Reported(mm, T("Error: ..."), "error_reported")
         ELSE LET features == Put(mm.features,
                                  [name |-> parts[1], expression |-> parts[2]])
                  \* the loop over m.features.items() has rebound `name`
                  name == features[Len(features)].name
              IN  [Ret([mm EXCEPT !.features = features])
                     EXCEPT !.spawned = <<NewTask("feature", name)>>]

remove_feature(mm, feature) ==
    LET m1 == [mm EXCEPT !.layers = {l \in @ : l.name # feature}]
    IN  IF feature \notin Keys(mm.features) THEN Raised(m1)
        ELSE Ret([m1 EXCEPT !.features = Del(@, feature)])

RECURSIVE RemoveFeatures(_, _)
\* for feature in features_to_remove: remove_feature(feature, m)
RemoveFeatures(r, features_to_remove) ==
    IF features_to_remove = <<>> \/ r.raised THEN r
    ELSE RemoveFeatures(Merge(r, remove_feature(r.m, Head(features_to_remove))),
                        Tail(features_to_remove))

remove_alias(mm, alias) ==
    LET m1 == [mm EXCEPT !.layers = {l \in @ : l.name # alias}]
    IN  IF alias \notin Keys(mm.aliases) THEN Raised(m1)
        ELSE LET m2 == [m1 EXCEPT !.aliases = Del(@, alias)]
                 \* the loop over m.aliases.items() has rebound `alias`
                 alias_ == IF m2.aliases = <<>> THEN alias
                           ELSE m2.aliases[Len(m2.aliases)].name
                 includes(f) == Contains(f.expression, alias_)
                 found == SelectSeq(m2.features, includes)
                 features_to_remove == [k \in DOMAIN found |-> found[k].name]
             IN  RemoveFeatures(Ret(m2), features_to_remove)

(***************************************************************************)
(* use_cases.py : export_spec, import_spec                                 *)
(***************************************************************************)
\* f"{alias_name}:{dataset}:{layer}:{start:%d/%m/%Y}:{end:%d/%m/%Y}:{agg_fun}"
AliasString(e) ==
    Join(<<e.name, e.dataset, e.layer, FormatDMY(ParseIso(e.start)),
           FormatDMY(ParseIso(e.end)), e.agg_fun>>, ":")
\* f"{name}:{expression}"
FeatureString(f) == Join(<<f.name, f.expression>>, ":")
AliasStrings(mm) == [k \in DOMAIN mm.aliases |-> AliasString(mm.aliases[k])]
FeatureStrings(mm) == [k \in DOMAIN mm.features |-> FeatureString(mm.features[k])]

\* region.coordinates().getInfo()[0] of a region that is set.
FirstCoordinates(region) == Head(region.coordinates.kids)

\* remote_ok: whether the getInfo calls answer.
export_spec(mm, remote_ok) ==
    LET aliases == AliasStrings(mm)
        features == FeatureStrings(mm)
        query_region == IF mm.qr # None THEN FirstCoordinates(mm.qr) ELSE List(<<>>)
        reference_region == IF mm.roi # None THEN FirstCoordinates(mm.roi) ELSE List(<<>>)
        task == IF mm.cluster THEN "cluster" ELSE "search"
        spec_data ==
            [keys |-> {"aliases", "features", "land_cover", "distance", "regions", "task"},
             aliases |-> aliases,
             features |-> features,
             land_cover |-> mm.mask_dropdown.value,
             distance |-> mm.distance_dropdown.value,
             regions |-> [number_of_clusters |-> mm.num_clusters.value,
                          query_region |-> query_region,
                          reference_region |-> reference_region],
             task |-> task]
    IN  IF aliases = <<>>
        THEN Reported(mm, T("No aliases found. Please add at least one alias."),
                      "no_aliases")
        ELSE IF (mm.qr # None \/ mm.roi # None) /\ ~remote_ok THEN Raised(mm)
        ELSE IF ~Truthy(query_region)
        THEN Reported(mm, T("No query region found. Please set the query region."),
                      "no_query_region")
        ELSE [Reported(mm, T("Download link: ..."), "written")
                EXCEPT !.written = <<spec_data>>]

\* The options of the dropdowns and the range of the cluster count (app.py).
DistanceOptions == {"Euclidean", "Manhattan", "Cosine"}
MaskOptions ==
    {"All", "water", "trees", "grass", "flooded_vegetation", "crops",
     "shrub_and_scrub", "built", "bare", "snow_and_ice"}
MinClusters == 2
MaxClusters == 20
\* BoundedIntText keeps its value within its range.
Clamp(n) == IF n < MinClusters THEN MinClusters
            ELSE IF n > MaxClusters THEN MaxClusters ELSE n

\* The alias strings of a spec, split; <<>> when one does not have 6 parts.
AliasParts(aliases) == [k \in DOMAIN aliases |-> Split(aliases[k], ":")]

RECURSIVE ImportAliases(_, _, _, _)
\* The loop of add_alias calls over processed_aliases, from the k-th on.
ImportAliases(r, processed, answers, k) ==
    IF k > Len(processed) \/ r.raised THEN r
    ELSE ImportAliases(Merge(r, add_alias(r.m, processed[k], answers[k])),
                       processed, answers, k + 1)

RECURSIVE ImportFeatures(_, _, _, _)
\* The loop over the feature strings, from the k-th on.
ImportFeatures(r, features, means_ok, k) ==
    IF k > Len(features) \/ r.raised THEN r
    ELSE LET parts == Split(features[k], ":") IN
         IF Len(parts) # 2 THEN Merge(r, Raised(r.m))
         ELSE IF parts[2] = <<>>
         THEN ImportFeatures(r, features, means_ok, k + 1)
         ELSE ImportFeatures(
                  Merge(r, add_feature(r.m, Join(<<parts[1], parts[2]>>, ":"),
                                       means_ok[k])),
                  features, means_ok, k + 1)

\* The tail of import_spec: the dropdowns and the closing message.
ImportSettings(r, spec_data) ==
    IF r.raised THEN r
    ELSE IF spec_data.distance # "" /\ spec_data.distance \notin DistanceOptions
    THEN Merge(r, Raised(r.m))
    ELSE LET m1 == IF spec_data.distance # ""
                   THEN SetDistanceDropdown(r.m, spec_data.distance) ELSE r.m
         IN  IF spec_data.land_cover # "" /\ spec_data.land_cover \notin MaskOptions
             THEN Merge(r, Raised(m1))
             ELSE LET m2 == IF spec_data.land_cover # ""
                            THEN SetMaskDropdown(m1, spec_data.land_cover) ELSE m1
                  IN  Merge(r, Reported(m2, T("Specification loaded successfully."),
                                        "loaded"))

\* The body of the import_spec task.  env: the remote answers to the calls
\* it makes.  An exception that leaves the body ends the task's thread.
import_spec(mm, spec_data, env) ==
    IF "task" \notin spec_data.keys \/ "aliases" \notin spec_data.keys
         \/ spec_data.aliases = <<>>
    THEN Reported(mm, T("Error: 'task' and at least one 'alias' are required in the spec file."),
                  "rejected")
    ELSE
    LET task == spec_data.task
        regions == spec_data.regions
        given_qr == Truthy(regions.query_region)
        given_roi == Truthy(regions.reference_region)
        query_region == IF given_qr THEN regions.query_region
                        ELSE FirstCoordinates(mm.qr)
        \* the fallback is the region object m.roi itself, not a ring
        reference_region == IF given_roi THEN regions.reference_region
                            ELSE mm.roi.coordinates
        default_period_set ==
            ~(mm.start_date.value = DefaultDate /\ mm.end_date.value = DefaultDate)
        parts == AliasParts(spec_data.aliases)
        Named(k) == [given |-> TRUE, alias |-> parts[k][1], dataset |-> parts[k][2],
                     layer |-> parts[k][3], agg_fun |-> parts[k][6],
                     start |-> IF parts[k][4] = <<>> \/ parts[k][5] = <<>>
                               THEN mm.start_date.value ELSE ParseDMY(parts[k][4]),
                     end |-> IF parts[k][4] = <<>> \/ parts[k][5] = <<>>
                             THEN mm.end_date.value ELSE ParseDMY(parts[k][5])]
        Invalid(k) == Len(parts[k]) # 6
        Incomplete(k) == parts[k][2] = <<>> \/ parts[k][3] = <<>> \/ parts[k][6] = <<>>
        NoPeriod(k) == (parts[k][4] = <<>> \/ parts[k][5] = <<>>) /\ ~default_period_set
        BadDate(k) == /\ parts[k][4] # <<>> /\ parts[k][5] # <<>>
                      /\ ~(IsDMY(parts[k][4]) /\ IsDMY(parts[k][5]))
        Stops(k) == Invalid(k) \/ Incomplete(k) \/ NoPeriod(k) \/ BadDate(k)
        first == IF \E k \in DOMAIN parts : Stops(k)
                 THEN CHOOSE k \in DOMAIN parts : Stops(k) /\ \A h \in 1..(k-1) : ~Stops(h)
                 ELSE 0
        m1 == IF task = "cluster"
              THEN [SetClusterCheckbox(mm, TRUE) EXCEPT
                      !.num_clusters.disabled = FALSE,
                      !.num_clusters.value = Clamp(regions.number_of_clusters)]
              ELSE [SetClusterCheckbox(mm, FALSE) EXCEPT !.num_clusters.disabled = TRUE]
        m2 == [m1 EXCEPT !.qr = Polygon(<<query_region>>),
                         !.layers = AddRegionLayer(@, "Query Region"),
                         !.qr_set = TRUE]
        m3 == [m2 EXCEPT !.roi = Polygon(<<reference_region>>),
                         !.layers = AddRegionLayer(@, "Reference Region"),
                         !.roi_set = TRUE]
        processed == [k \in DOMAIN parts |-> Named(k)]
    IN  IF ~given_qr /\ mm.qr = None
        THEN Reported(mm, T("Error: No query region provided in spec or set on map."),
                      "rejected")
        ELSE IF ~given_qr /\ ~env.remote_ok THEN Raised(mm)
        ELSE IF task = "search" /\ ~given_roi /\ mm.roi = None
        THEN Reported(mm, T("Error: No reference region provided in spec or set on map for search task."),
                      "rejected")
        ELSE IF first # 0 /\ Invalid(first)
        THEN Reported(mm, T("Error: Invalid alias format: ..."), "rejected")
        ELSE IF first # 0 /\ Incomplete(first)
        THEN Reported(mm, T("Error: Incomplete alias specification for ..."), "rejected")
        ELSE IF first # 0 /\ NoPeriod(first)
        THEN Reported(mm, T("Error: Missing period for alias ... and no default period set."),
                      "rejected")
        ELSE IF first # 0 THEN Raised(mm)
        \* shape() takes a ring; anything else raises
        ELSE IF ~IsRing(query_region) THEN Raised(m1)
        ELSE IF task = "search" /\ ~IsRing(reference_region) THEN Raised(m2)
        ELSE LET m4 == IF task = "search" THEN m3 ELSE m2
                 r1 == ImportAliases(Ret(m4), processed, env.answers, 1)
                 r2 == ImportFeatures(r1, spec_data.features, env.means_ok, 1)
             IN  ImportSettings(r2, spec_data)

(***************************************************************************)
(* search.py : execute, cluster, search                                    *)
(***************************************************************************)
WarningText ==
    T("Warning: Cosine similarity is not supported for clustering. Defaulting to Euclidean distance.")

\* The except branch of cluster and of search: the error is shown, then
\* message(map, ...) with the builtin `map` raises out of the handler.
ShownThenRaised(mm) ==
    Raised([mm EXCEPT !.output_widget = MessageAppend(@, T("Error: ..."))])

\* A plausible slip: the selected distance is handed to the clusterer as is.
cluster_as_selected(mm, local_ok) ==
    IF mm.features = <<>> \/ (mm.mask # "All" /\ ~local_ok)
    THEN ShownThenRaised(mm)
    ELSE [Ret([mm EXCEPT !.feature_img = "image", !.clustered = "image"])
            EXCEPT !.spawned = <<NewTask("clusters", T("Clusters"))>>,
                   !.trained = mm.distance_fun]

\* local_ok: whether the client library builds the land cover request.
cluster(mm, local_ok) ==
    LET warned == mm.distance_fun # "Euclidean" /\ mm.distance_fun # "Manhattan"
        distance_fun == IF mm.distance_fun = "Euclidean" THEN "Euclidean"
                        ELSE IF mm.distance_fun = "Manhattan" THEN "Manhattan"
                        ELSE "Euclidean"
        m1 == IF warned THEN Say(mm, WarningText) ELSE mm
        warnings == IF warned THEN 1 ELSE 0
    IN  IF m1.features = <<>>
        THEN [ShownThenRaised(m1) EXCEPT !.warnings = warnings]
        ELSE IF m1.mask # "All" /\ ~local_ok
        THEN [ShownThenRaised([m1 EXCEPT !.feature_img = "image"])
                EXCEPT !.warnings = warnings]
        ELSE [Ret([m1 EXCEPT !.feature_img = "image", !.clustered = "image"])
                EXCEPT !.spawned = <<NewTask("clusters", T("Clusters"))>>,
                       !.warnings = warnings,
                       !.trained = distance_fun]

search(mm, local_ok) ==
    IF mm.features = <<>> THEN ShownThenRaised(mm)
    ELSE LET m1 == [mm EXCEPT !.feature_img = "image", !.distances = "image",
                              !.average_distance = "image"]
         IN  IF m1.qr = None \/ ((m1.roi = None \/ m1.mask # "All") /\ ~local_ok)
             THEN ShownThenRaised(m1)
             ELSE [Ret(m1) EXCEPT
                     !.spawned = <<NewTask("distance", T("Average Distance"))>>]

RECURSIVE AddAliasFeatures(_, _, _, _)
\* execute's loop: add_feature(None, m, f"{alias}:{alias}") for the aliases
\* that were there when the loop began, from the k-th on.
AddAliasFeatures(r, names, means_ok, k) ==
    IF k > Len(names) \/ r.raised THEN r
    ELSE AddAliasFeatures(
             Merge(r, add_feature(r.m, Join(<<names[k], names[k]>>, ":"), means_ok[k])),
             names, means_ok, k + 1)

execute(mm, env) ==
    LET names == [k \in DOMAIN mm.aliases |-> mm.aliases[k].name]
        r1 == IF mm.features = <<>>
              THEN AddAliasFeatures(Ret(mm), names, env.means_ok, 1)
              ELSE Ret(mm)
    IN  IF r1.raised THEN r1
        ELSE IF r1.m.cluster
        THEN [Merge(r1, cluster(r1.m, env.local_ok)) EXCEPT !.ran = "cluster"]
        ELSE [Merge(r1, search(r1.m, env.local_ok)) EXCEPT !.ran = "search"]

(***************************************************************************)
(* app.py : the user's events.  Each runs the handler bound to the widget  *)
(* to its end.  `scope` names what a specification lets the user enter     *)
(* and whether it follows the files written and the tasks dispatched.      *)
(***************************************************************************)
NoView == [aliases |-> <<>>, features |-> <<>>, query |-> <<>>,
           reference |-> <<>>, task |-> "none"]

\* What a session spec is about: the alias and feature strings, the rings
\* of the two regions, the task.
View(mm) ==
    [aliases |-> AliasStrings(mm), features |-> FeatureStrings(mm),
     query |-> Rings(mm.qr.coordinates), reference |-> Rings(mm.roi.coordinates),
     task |-> IF mm.cluster THEN "cluster" ELSE "search"]

NoCall ==
    [op |-> "none", raised |-> FALSE, died |-> FALSE, outcome |-> "none",
     text |-> <<>>, warnings |-> 0, ran |-> "none", trained |-> "none",
     wrote |-> FALSE, spawned |-> <<>>,
     since_reset |-> FALSE, stale |-> FALSE, fresh |-> FALSE,
     exported |-> FALSE, remote_ok |-> FALSE, original |-> NoView]

Range(seq) == {seq[k] : k \in DOMAIN seq}
Kinds(spawned) == [k \in DOMAIN spawned |-> spawned[k].kind]

\* Bound of the number of messages that stay in the log.
MaxLog == 1

\* The state after a handler that ran in the user's thread.
\* The dispatched tasks whose threads the specification follows.
Followed(spawned, scope) ==
    LET followed(task) == task.kind \in scope.kinds IN SelectSeq(spawned, followed)

Commit(op, r, scope) ==
    /\ scope.tasks => Len(tasks) + Len(Followed(r.spawned, scope)) <= MaxTasks
    /\ Len(r.m.output_widget) <= MaxLog
    /\ m' = r.m
    /\ tasks' = IF scope.tasks THEN tasks \o Followed(r.spawned, scope) ELSE tasks
    /\ files' = IF scope.files
                THEN files \cup {[spec |-> w, view |-> View(m)] : w \in Range(r.written)}
                ELSE files
    /\ last' = [NoCall EXCEPT
                  !.op = op, !.raised = r.raised, !.outcome = r.outcome,
                  !.text = r.text, !.warnings = r.warnings, !.ran = r.ran,
                  !.trained = r.trained, !.wrote = r.written # <<>>,
                  !.spawned = Kinds(r.spawned),
                  \* reset_map has run and nothing but export_spec since
                  !.since_reset = \/ op = "reset_map"
                                  \/ op = "export_spec" /\ last.since_reset,
                  \* ... and before it the session had aliases and a query region
                  !.stale = \/ op = "reset_map" /\ m.aliases # <<>> /\ m.qr # None
                            \/ op = "export_spec" /\ last.since_reset /\ last.stale]
    /\ UNCHANGED <<tiling, dist>>

reset_button_click(scope) == Commit("reset_map", reset_map(m), scope)

spec_export_button_click(scope) ==
    \E remote_ok \in BOOLEAN :
        Commit("export_spec", export_spec(m, remote_ok), scope)

\* handle_spec_upload with a file that parses: the import_spec task, run to
\* its end.  An exception in the task ends its thread and reaches no one.
spec_import_button_upload(scope) ==
    \E f \in {[spec |-> sp, view |-> NoView, exported |-> FALSE] : sp \in scope.specs}
             \cup {[spec |-> w.spec, view |-> w.view, exported |-> TRUE] : w \in files} :
    \E remote_ok \in BOOLEAN :
    \E answers \in [1..Len(f.spec.aliases) -> scope.answers] :
    \E means_ok \in [1..Len(f.spec.features) -> BOOLEAN] :
        LET env == [remote_ok |-> remote_ok, answers |-> answers, means_ok |-> means_ok]
            r == import_spec(m, f.spec, env)
        IN  /\ scope.tasks => Len(tasks) + Len(Followed(r.spawned, scope)) <= MaxTasks
            /\ m' = r.m
            /\ tasks' = IF scope.tasks THEN tasks \o Followed(r.spawned, scope) ELSE tasks
            /\ last' = [NoCall EXCEPT
                          !.op = "import_spec", !.died = r.raised,
                          !.outcome = IF r.raised THEN "died" ELSE r.outcome,
                          !.spawned = Kinds(r.spawned),
                          !.fresh = last.since_reset,
                          !.exported = f.exported,
                          !.remote_ok = /\ remote_ok
                                        /\ \A k \in DOMAIN answers :
                                             answers[k] \in {"image", "collection"}
                                        /\ \A k \in DOMAIN means_ok : means_ok[k],
                          !.original = f.view]
            /\ UNCHANGED <<tiling, dist, files>>

set_region_button_click(scope) ==
    \E drawn \in scope.drawn : Commit("set_search_region", set_search_region(m, drawn), scope)

set_roi_button_click(scope) ==
    /\ ~m.set_roi_button.disabled
    /\ \E drawn \in scope.drawn :
         Commit("set_region_of_interest", set_region_of_interest(m, drawn), scope)

ros_upload_button_upload(scope) ==
    \E up \in scope.uploads : Commit("handle_upload_change", handle_upload_change(m, up), scope)

roi_upload_button_upload(scope) ==
    /\ ~m.roi_upload_button.disabled
    /\ \E up \in scope.uploads :
         Commit("handle_roi_upload_change", handle_roi_upload_change(m, up), scope)

cluster_checkbox_change(scope) ==
    Commit("handle_clustering_change",
           Ret(SetClusterCheckbox(m, ~m.cluster_checkbox.value)), scope)

mask_dropdown_change(scope) ==
    \E new \in scope.masks \ {m.mask_dropdown.value} :
        Commit("update_mask_dropdown", Ret(SetMaskDropdown(m, new)), scope)

distance_dropdown_change(scope) ==
    \E new \in DistanceOptions \ {m.distance_dropdown.value} :
        Commit("update_distance_dropdown", Ret(SetDistanceDropdown(m, new)), scope)

start_date_change(scope) ==
    \E new \in scope.dates \ {m.start_date.value} :
        Commit("update_start_date", Ret(SetStartDate(m, new)), scope)

end_date_change(scope) ==
    \E new \in scope.dates \ {m.end_date.value} :
        Commit("update_end_date", Ret(SetEndDate(m, new)), scope)

\* add_alias(event, self, list_aliases=True) on the form as the user filled it.
add_button_click(scope) ==
    \E form \in scope.forms, answer \in scope.answers :
        Commit("add_alias",
               add_alias(m, [given |-> FALSE, alias |-> form.alias,
                             dataset |-> form.dataset, layer |-> form.layer,
                             agg_fun |-> form.agg_fun,
                             start |-> m.start, end |-> m.end], answer),
               scope)

add_feature_click(scope) ==
    \E udf \in scope.udfs, mean_ok \in BOOLEAN :
        Commit("add_feature", add_feature(m, udf, mean_ok), scope)

\* The "x" button next to a listed alias.
remove_alias_click(scope) ==
    \E alias \in Keys(m.aliases) : Commit("remove_alias", remove_alias(m, alias), scope)

\* The "x" button next to a listed feature.
remove_feature_click(scope) ==
    \E feature \in Keys(m.features) :
        Commit("remove_feature", remove_feature(m, feature), scope)

search_button_click(scope) ==
    \E means_ok \in [1..Len(m.aliases) -> BOOLEAN], local_ok \in BOOLEAN :
        Commit("execute", execute(m, [means_ok |-> means_ok, local_ok |-> local_ok]),
               scope)


(***************************************************************************)
(* Specifications                                                          *)
(***************************************************************************)
Idle == /\ m = InitialMap /\ tasks = <<>> /\ files = {} /\ last = NoCall

InitTiling ==
    /\ tiling \in {TilingIdle(qr) : qr \in QueryRegions}
    /\ dist = DistIdle
    /\ Idle

NextTiling ==
    /\ \/ export_image
       \/ export_single_image
       \/ export_cell
       \/ export_write_urls
    /\ UNCHANGED <<dist, m, tasks, files, last>>

SpecTiling == InitTiling /\ [][NextTiling]_vars

InitDistance ==
    /\ \E n \in 1..MaxBands :
         dist \in [pc : {"input"}, x : Vectors(n), r : Vectors(n),
                   fun : DistanceFunctions, distance : {Whole(0)}]
    /\ tiling = TilingIdle({})
    /\ Idle

NextDistance == search_pixel /\ UNCHANGED <<tiling, m, tasks, files, last>>

SpecDistance == InitDistance /\ [][NextDistance]_vars

\* The retry wrappers: up to MaxTasks invocations, for aliases and features
\* of one name or of two, running side by side.
TaskNames == {T("a"), T("b")}

InitRetry ==
    /\ \E n \in 1..MaxTasks :
         tasks \in [1..n -> {NewTask(kind, alias) :
                               kind \in {"alias", "feature"}, alias \in TaskNames}]
    /\ m = InitialMap /\ files = {} /\ last = NoCall
    /\ tiling = TilingIdle({}) /\ dist = DistIdle

NextRetry ==
    /\ \E t \in DOMAIN tasks : TaskStep(t) \/ WorkerStep(t)
    /\ UNCHANGED <<tiling, dist, files, last>>

SpecRetry == InitRetry /\ [][NextRetry]_vars

\* Two wrappers side by side, as execute starts them for an alias and for
\* the feature it creates of the same name, or as two clicks start them.
InitPools ==
    /\ \E name \in TaskNames :
         tasks = <<NewTask("alias", T("a")), NewTask("feature", name)>>
    /\ m = InitialMap /\ files = {} /\ last = NoCall
    /\ tiling = TilingIdle({}) /\ dist = DistIdle

SpecPools == InitPools /\ [][NextRetry]_vars

\* The retry wrappers while the user resets the map.
NextRetryReset ==
    \/ NextRetry
    \/ reset_button_click([tasks |-> FALSE, kinds |-> {}, files |-> FALSE])

SpecRetryReset == InitRetry /\ [][NextRetryReset]_vars

\* The thread of a wrapper is scheduled as long as it has a step to take;
\* nothing is assumed of the pool's worker or of the remote service.
SpecRetryFair ==
    /\ SpecRetry
    /\ \A t \in 1..MaxTasks :
         WF_vars(t \in DOMAIN tasks /\ TaskStep(t)
                   /\ UNCHANGED <<tiling, dist, files, last>>)

\* The session as one user drives it.
Dataset == T("COPERNICUS/S2")
Band == T("B4")

\* Spec files written by hand.
HandSpec(keys, task, aliases, features, query_region, reference_region) ==
    [keys |-> keys, aliases |-> aliases, features |-> features,
     land_cover |-> "All", distance |-> "Cosine",
     regions |-> [number_of_clusters |-> 5, query_region |-> query_region,
                  reference_region |-> reference_region],
     task |-> task]
AllKeys == {"aliases", "features", "land_cover", "distance", "regions", "task"}
AliasA == <<"a", ":", "COPERNICUS/S2", ":", "B4", ":", "15", "/", "03", "/", "2021",
            ":", "15", "/", "03", "/", "2021", ":", "LAST">>
AliasNoName == <<":", "COPERNICUS/S2", ":", "B4", ":", ":", ":", "MEAN">>
HandSpecs ==
    { HandSpec(AllKeys, "search", <<AliasA>>, <<<<"f", ":", "a">>>>, Ring(1), Ring(2)),
      HandSpec(AllKeys, "cluster", <<AliasA>>, <<>>, Ring(1), List(<<>>)),
      HandSpec(AllKeys \ {"task"}, "search", <<AliasA>>, <<>>, Ring(1), Ring(2)),
      HandSpec(AllKeys, "cluster", <<AliasA>>, <<<<"f", ":", "a", ":", "a">>>>,
               Ring(1), List(<<>>)),
      HandSpec(AllKeys, "cluster", <<AliasNoName>>, <<>>, List(<<>>), List(<<>>)) }

SessionScope ==
    [tasks |-> FALSE, kinds |-> {}, files |-> FALSE,
     drawn |-> {<<>>, <<List(<<Ring(1)>>)>>},
     uploads |-> {}, masks |-> {"All"}, dates |-> {DefaultDate},
     forms |-> {[alias |-> alias, dataset |-> dataset, layer |-> Band,
                 agg_fun |-> T("LAST")] :
                   alias \in {<<>>, T("a")}, dataset \in {<<>>, Dataset}},
     answers |-> RemoteAnswers,
     udfs |-> {<<>>, T("f"), <<"f", ":", " ", "a">>, <<"f", ":", "a", ":", "b">>},
     specs |-> {}]

Init == Idle /\ tiling = TilingIdle({}) /\ dist = DistIdle

Next ==
    \/ reset_button_click(SessionScope)
    \/ spec_export_button_click(SessionScope)
    \/ set_region_button_click(SessionScope)
    \/ set_roi_button_click(SessionScope)
    \/ cluster_checkbox_change(SessionScope)
    \/ distance_dropdown_change(SessionScope)
    \/ add_button_click(SessionScope)
    \/ add_feature_click(SessionScope)
    \/ remove_alias_click(SessionScope)
    \/ remove_feature_click(SessionScope)
    \/ search_button_click(SessionScope)

Spec == Init /\ [][Next]_vars

\* Spec files written by hand are imported into a session.
ImportScope ==
    [tasks |-> FALSE, kinds |-> {}, files |-> FALSE,
     drawn |-> DrawnShapes,
     uploads |-> {}, masks |-> {"All", "water"},
     dates |-> {DefaultDate, OtherDate},
     forms |-> {}, answers |-> {"image", "empty", "error"}, udfs |-> {},
     specs |-> HandSpecs]

NextImport ==
    \/ spec_import_button_upload(ImportScope)
    \/ reset_button_click(ImportScope)
    \/ set_region_button_click(ImportScope)
    \/ mask_dropdown_change(ImportScope)
    \/ end_date_change(ImportScope)

SpecImport == Init /\ [][NextImport]_vars

\* A session is built, exported, reset, and the exported spec imported.
RoundTripScope ==
    [tasks |-> FALSE, kinds |-> {}, files |-> TRUE,
     drawn |-> {<<List(<<Ring(1)>>)>>},
     uploads |-> {up \in Uploads : up.readable},
     masks |-> {"All"}, dates |-> {DefaultDate, OtherDate},
     forms |-> {[alias |-> alias, dataset |-> Dataset, layer |-> Band,
                 agg_fun |-> T("MEAN")] : alias \in {T("a")}},
     answers |-> {"collection", "error"},
     udfs |-> {<<"f", ":", "a">>},
     specs |-> {}]

NextRoundTrip ==
    \/ /\ files = {}
       /\ \/ set_region_button_click(RoundTripScope)
          \/ set_roi_button_click(RoundTripScope)
          \/ ros_upload_button_upload(RoundTripScope)
          \/ roi_upload_button_upload(RoundTripScope)
          \/ cluster_checkbox_change(RoundTripScope)
          \/ start_date_change(RoundTripScope)
          \/ add_button_click(RoundTripScope)
          \/ add_feature_click(RoundTripScope)
          \/ spec_export_button_click(RoundTripScope)
    \/ /\ files # {} /\ last.op = "export_spec"
       /\ reset_button_click(RoundTripScope)
    \/ /\ files # {} /\ last.op = "reset_map"
       /\ spec_import_button_upload(RoundTripScope)

SpecRoundTrip == Init /\ [][NextRoundTrip]_vars


\* The session with the tasks that show its results: the user's events run
\* to their end in the user's thread; between them the threads of
\* async_add_clusters and async_add_distance_map take their steps.
BackgroundScope ==
    [tasks |-> TRUE, kinds |-> {"clusters", "distance"}, files |-> FALSE,
     drawn |-> {<<List(<<Ring(1)>>)>>},
     uploads |-> {}, masks |-> {"All"}, dates |-> {DefaultDate},
     forms |-> {[alias |-> T("a"), dataset |-> Dataset, layer |-> Band,
                 agg_fun |-> T("LAST")]},
     answers |-> {"image"},
     udfs |-> {<<"f", ":", "a">>},
     specs |-> {}]

\* One step of the thread of task t, or its end.
ThreadStep(t) ==
    /\ t \in DOMAIN tasks
    /\ ResultStep(t) \/ TaskJoin(t)
    /\ Len(m'.output_widget) <= MaxLog + 1
    /\ UNCHANGED <<tiling, dist, files, last>>

NextBackground ==
    \/ reset_button_click(BackgroundScope)
    \/ set_region_button_click(BackgroundScope)
    \/ cluster_checkbox_change(BackgroundScope)
    \/ add_button_click(BackgroundScope)
    \/ add_feature_click(BackgroundScope)
    \/ search_button_click(BackgroundScope)
    \/ \E t \in 1..MaxTasks : ThreadStep(t)

SpecBackground == Init /\ [][NextBackground]_vars

\* A thread is scheduled as long as it has a step to take; nothing is
\* assumed of the user.
SpecBackgroundFair ==
    /\ SpecBackground
    /\ \A t \in 1..MaxTasks : WF_vars(ThreadStep(t))


\* The mode of the session: the checkbox, imported specs of both tasks, and
\* the reset.
NextMode ==
    \/ cluster_checkbox_change(ImportScope)
    \/ spec_import_button_upload(ImportScope)
    \/ reset_button_click(ImportScope)

SpecMode == Init /\ [][NextMode]_vars

\* The background loads of an alias and of a feature, followed to their end
\* while the user goes on.
LoadScope ==
    [tasks |-> TRUE, kinds |-> {"alias", "feature"}, files |-> FALSE,
     drawn |-> {<<List(<<Ring(1)>>)>>},
     uploads |-> {}, masks |-> {"All"}, dates |-> {DefaultDate},
     forms |-> {[alias |-> T("a"), dataset |-> Dataset, layer |-> Band,
                 agg_fun |-> T("LAST")]},
     answers |-> {"image"},
     udfs |-> {<<"f", ":", "a">>},
     specs |-> {}]

\* One step of the wrapper of task t, of its pool's worker, or its end.
LoadStep(t) ==
    /\ t \in DOMAIN tasks
    /\ TaskStep(t) \/ WorkerStep(t) \/ TaskJoin(t)
    /\ Len(m'.output_widget) <= MaxLog + 1
    /\ UNCHANGED <<tiling, dist, files, last>>

NextLoad ==
    \/ set_region_button_click(LoadScope)
    \/ add_button_click(LoadScope)
    \/ add_feature_click(LoadScope)
    \/ search_button_click(LoadScope)
    \/ spec_export_button_click(LoadScope)
    \/ remove_feature_click(LoadScope)
    \/ \E t \in 1..MaxTasks : LoadStep(t)

SpecLoad == Init /\ [][NextLoad]_vars

\* Aliases and features of two names are added and removed.
RemoveScope ==
    [tasks |-> FALSE, kinds |-> {}, files |-> FALSE,
     drawn |-> {}, uploads |-> {}, masks |-> {"All"}, dates |-> {DefaultDate},
     forms |-> {[alias |-> alias, dataset |-> Dataset, layer |-> Band,
                 agg_fun |-> T("LAST")] : alias \in {T("a"), T("b")}},
     answers |-> {"image"},
     udfs |-> {<<"f", ":", "a">>, <<"g", ":", "b">>},
     specs |-> {}]

NextRemove ==
    \/ add_button_click(RemoveScope)
    \/ add_feature_click(RemoveScope)
    \/ remove_alias_click(RemoveScope)
    \/ remove_feature_click(RemoveScope)
    \/ search_button_click(RemoveScope)
    \/ reset_button_click(RemoveScope)

SpecRemove == Init /\ [][NextRemove]_vars


(***************************************************************************)
(* Properties                                                              *)
(***************************************************************************)
\* The extent of the query region's bounding box.
BBoxWidth == Bounds(tiling.qr).x_max - Bounds(tiling.qr).x_min
BBoxHeight == Bounds(tiling.qr).y_max - Bounds(tiling.qr).y_min
Exported == tiling.pc # "idle"

\* C3: whenever the bounding box of the query region is at most one cell
\* size wide and high (equality included), export_image produces one export
\* unit: export_single_image is called once and export_multiple_images is not.
C3_SingleUnitWithinOneCell ==
    (Exported /\ BBoxWidth <= cell_size /\ BBoxHeight <= cell_size)
        => (tiling.single_calls = 1 /\ tiling.multi_calls = 0)

\* A pixel of the region lies in a cell (both closed).
PixelInCell(p, c) ==
    /\ c.x1 <= PixelBox(p).x1 /\ PixelBox(p).x2 <= c.x2
    /\ c.y1 <= PixelBox(p).y1 /\ PixelBox(p).y2 <= c.y2

CellSet == {tiling.cells[k] : k \in 1..Len(tiling.cells)}

\* C4: the cells split_geometry returns cover the query region: every
\* point of the region (each of its pixels, boundary included) lies in a cell.
C4_TilingCoversRegion ==
    tiling.pc = "multi" =>
        \A p \in tiling.qr : \E c \in CellSet : PixelInCell(p, c)

\* C4 witness: a tiled export of a region that is not a rectangle and whose
\* bounding box is exactly two cells wide (points on a cell boundary).
C4_Witness ==
    /\ tiling.pc = "multi"
    /\ Len(tiling.cells) >= 4
    /\ BBoxWidth = 2 * cell_size
    /\ \E p \in (0..GridW-1) \X (0..GridH-1) :
         /\ p \notin tiling.qr
         /\ PixelBox(p).x2 <= Bounds(tiling.qr).x_max
         /\ PixelBox(p).y2 <= Bounds(tiling.qr).y_max

\* C5: every tile split_geometry returns has a point in common with the
\* query region itself.
C5_EveryTileMeetsRegion ==
    \A c \in CellSet : \E p \in tiling.qr : BoxIntersects(c, PixelBox(p))

ZeroVector(v) == \A k \in DOMAIN v : v[k] = 0

\* x is a positive multiple of r: a * x = b * r for positive integers a, b.
SameDirection(x, r) ==
    \E a, b \in 1..MaxVal : \A k \in DOMAIN x : a * x[k] = b * r[k]

\* C7 (as stated): the distance is 0 under Euclidean and Manhattan when
\* x = r, and 0 under Cosine when x is a positive multiple of r, whatever
\* the magnitudes.
C7_ZeroDistanceAsStated ==
    dist.pc = "done" =>
        /\ (dist.fun \in {"Euclidean", "Manhattan"} /\ dist.x = dist.r)
                => IsZero(dist.distance)
        /\ (dist.fun = "Cosine" /\ SameDirection(dist.x, dist.r))
                => IsZero(dist.distance)

\* C7 (amended): as stated, for Cosine provided the reference vector is not
\* the zero vector.
C7_ZeroDistance ==
    dist.pc = "done" =>
        /\ (dist.fun \in {"Euclidean", "Manhattan"} /\ dist.x = dist.r)
                => IsZero(dist.distance)
        /\ (dist.fun = "Cosine" /\ SameDirection(dist.x, dist.r)
              /\ ~ZeroVector(dist.r))
                => IsZero(dist.distance)

\* C7 witness: a Cosine distance of two vectors of different magnitude that
\* point the same way, neither along an axis.
C7_Witness ==
    /\ dist.pc = "done" /\ dist.fun = "Cosine"
    /\ Len(dist.x) = 2 /\ dist.x # dist.r
    /\ SameDirection(dist.x, dist.r)
    /\ \A k \in DOMAIN dist.r : dist.r[k] # 0
    /\ IsZero(dist.distance)

\* C1 as stated: after reset_map, export_spec reports that there is no query
\* region, and writes no file.
C1_NoQueryRegionAfterReset ==
    (last.op = "export_spec" /\ last.since_reset) =>
        /\ last.text = T("No query region found. Please set the query region.")
        /\ ~last.wrote

\* C1, amended: after reset_map, export_spec reports that there are no
\* aliases, and writes no file.
C1_NoAliasesAfterReset ==
    (last.op = "export_spec" /\ last.since_reset) =>
        /\ last.text = T("No aliases found. Please add at least one alias.")
        /\ ~last.wrote

\* export_spec was called after a reset of a session that had aliases and a
\* query region.
C1_Witness ==
    /\ last.op = "export_spec" /\ last.since_reset /\ last.stale
    /\ last.outcome = "no_aliases"

\* C2: the spec exported from a session, imported into a freshly reset
\* session with every remote call answering, gives back the alias strings,
\* the feature strings, the region rings and the task of the session.
C2_RoundTrip ==
    (last.op = "import_spec" /\ last.exported /\ last.fresh /\ last.remote_ok) =>
        View(m) = last.original

\* C6: cluster with Cosine selected trains with Euclidean and warns once;
\* with Euclidean or Manhattan selected it trains with the selected function
\* and does not warn.  (A run that fails before it trains has trained with
\* nothing.)
C6_CosineFallsBackToEuclidean ==
    last.ran = "cluster" =>
        /\ m.distance_fun \in DistanceOptions
        /\ last.warnings = (IF m.distance_fun = "Cosine" THEN 1 ELSE 0)
        /\ \/ last.trained = (IF m.distance_fun = "Cosine" THEN "Euclidean"
                              ELSE m.distance_fun)
           \/ last.raised /\ last.trained = "none"

\* cluster trained with Cosine selected.
C6_Witness ==
    /\ last.ran = "cluster" /\ m.distance_fun = "Cosine"
    /\ last.trained = "Euclidean" /\ last.warnings = 1 /\ ~last.raised

\* C8: an invocation of the retry wrapper starts at most `attempts` remote
\* evaluations, waits at most timeout_seconds on each, returns after the
\* first attempt that succeeded or after the last that failed, and returns
\* in the end.
C8_RetryBoundedAndTerminates ==
    /\ [](\A t \in DOMAIN tasks :
            /\ Len(tasks[t].jobs) <= attempts
            /\ tasks[t].waited <= timeout_seconds
            /\ tasks[t].outcome = "added" => Len(tasks[t].jobs) = tasks[t].attempt + 1
            /\ tasks[t].outcome = "exhausted" => Len(tasks[t].jobs) = attempts)
    /\ <>[](\A t \in DOMAIN tasks : tasks[t].pc = "done")

\* An invocation has returned after `attempts` failed attempts, the last of
\* which timed out.
C8_Witness ==
    \E t \in DOMAIN tasks :
        /\ tasks[t].pc = "done" /\ tasks[t].outcome = "exhausted"
        /\ Len(tasks[t].jobs) = attempts /\ tasks[t].waited = timeout_seconds

\* C9: a layer is added only after an attempt whose remote evaluation
\* succeeded, and at most once; after `attempts` failures the terminal
\* message has been reported once, no layer is added and the loading message
\* is no longer in the log.
C9_LayerOnlyAfterSuccess ==
    \A t \in DOMAIN tasks :
        /\ tasks[t].layer_adds > 0 => tasks[t].added_on = "ok"
        /\ tasks[t].layer_adds <= 1
        /\ tasks[t].outcome = "exhausted" =>
             /\ tasks[t].terminal_reports = 1
             /\ tasks[t].layer_adds = 0
             /\ \A k \in DOMAIN m.output_widget :
                  m.output_widget[k] # LoadingText(tasks[t].alias)

\* C10: no exception leaves an entry point.
C10_NoExceptionEscapes == ~last.raised

\* The session state the handlers work on.
SessionFields(mm) ==
    <<mm.qr, mm.roi, mm.aliases, mm.features, mm.feature_img, mm.distances,
      mm.average_distance>>

\* The call was turned down for what the user entered: an empty drawing, an
\* empty or colon-less expression, no dataset or band, no file (all reported
\* as "rejected"), or a search that failed with a region missing.
UserInputError(call, before) ==
    \/ call.outcome = "rejected"
    \/ /\ call.op = "execute" /\ call.ran = "search" /\ call.raised
       /\ (before.qr = None \/ before.roi = None)

\* C11: an action rejected for a user-input error leaves qr, roi, aliases,
\* features, feature_img, distances and average_distance as they were before
\* the action.
C11_RejectedActionKeepsState ==
    [][UserInputError(last', m) => SessionFields(m') = SessionFields(m)]_vars

\* The stage of the session: 0 Empty, 1 RegionsSet, 2 VariablesSet,
\* 3 FeaturesSet, 4 Searched or Clustered, by what the Map holds.
Stage(mm) ==
    IF mm.distances # "None" \/ mm.clustered # "unset" THEN 4
    ELSE IF mm.features # <<>> THEN 3
    ELSE IF mm.aliases # <<>> THEN 2
    ELSE IF mm.qr # None \/ mm.roi # None THEN 1
    ELSE 0

AllCleared(mm) == [mm EXCEPT !.average_distance = "unset"] = InitialMap

\* No session field and no view widget has changed; the message log may.
NoneCleared(before, after) == [after EXCEPT !.output_widget = <<>>]
                                = [before EXCEPT !.output_widget = <<>>]

\* C13: after reset_map either every session field and view widget has been
\* cleared or none has.
C13_ResetAllOrNothing ==
    [][last'.op = "reset_map" => AllCleared(m') \/ NoneCleared(m, m')]_vars

\* The step is a call of reset_map.
ResetStep == last'.op = "reset_map" /\ m' = reset_map(m).m

\* The values of the input widgets the Map keeps: the dates, the mask, the
\* distance, the cluster checkbox, the number of clusters, the threshold
\* slider's value and range.
InputWidgets(mm) ==
    <<mm.start_date.value, mm.end_date.value, mm.mask_dropdown.value,
      mm.distance_dropdown.value, mm.cluster_checkbox.value,
      mm.num_clusters.value, mm.max_value_slider.value,
      mm.max_value_slider.min, mm.max_value_slider.max>>

\* C14: after reset_map every input widget holds the value it had when the
\* Map was constructed.
C14_ResetRestoresInputWidgets ==
    [][ResetStep => InputWidgets(m') = InputWidgets(InitialMap)]_vars

\* C15: from the return of reset_map to the next user action the map holds
\* base layers only, whatever the tasks dispatched before the reset do.
C15_OnlyBaseLayersAfterReset ==
    last.op = "reset_map" => \A l \in m.layers : l.of = "base"

\* C16: a region that is set is not replaced before reset_map has run.
C16_RegionAssignedOnce ==
    [][~ResetStep => /\ m.qr # None => m'.qr = m.qr
                     /\ m.roi # None => m'.roi = m.roi]_vars

\* The rings of qr_roi, the region add_alias clips to: m.qr, or its union
\* with m.roi when there is one.
ClipRings(qr, roi) ==
    IF roi = None THEN Range(Rings(qr.coordinates))
    ELSE Range(Rings(qr.coordinates)) \cup Range(Rings(roi.coordinates))

\* C17: the image of every alias is clipped to the union of the session's
\* current query and reference regions.
C17_AliasesClippedToCurrentRegions ==
    \A k \in DOMAIN m.aliases :
        ClipRings(m.aliases[k].ds.qr, m.aliases[k].ds.roi) = ClipRings(m.qr, m.roi)

\* C18: the expression of every feature refers to current aliases only.
C18_FeaturesReferToCurrentAliases ==
    \A k \in DOMAIN m.features : Evaluates(m.features[k].expression, m.aliases)

\* The texts the handlers and result tasks of the session append and leave
\* to a later call to clear.
LogTexts == {T("Error: ..."), ResultText("clusters"), ResultText("distance")}

\* C19: every message appended to the log is eventually removed from it.
C19_EveryMessageEventuallyCleared ==
    \A text \in LogTexts :
        (text \in Range(m.output_widget)) ~> (text \notin Range(m.output_widget))

\* C20: no user action dispatches two or more background tasks.
C20_OneTaskPerAction == Len(last.spawned) <= 1

Increasing(seq) == \A h, k \in DOMAIN seq : h < k => seq[h] < seq[k]

\* The cells whose request failed, by their index in the list of cells.
FailedCells == {e - 1 : e \in Range(tiling.errors)}

\* C22: the cells are requested one after the other in the order of
\* split_geometry (x-index outer, y-index inner); a failure on cell k is
\* reported as cell k+1 and the later cells are still requested; the URL list
\* holds the cells that succeeded, in cell order.
C22_CellsSerialInOrder ==
    tiling.multi_calls = 1 =>
        /\ \A h, k \in DOMAIN tiling.cells :
             h < k => \/ tiling.cells[h].i < tiling.cells[k].i
                      \/ /\ tiling.cells[h].i = tiling.cells[k].i
                         /\ tiling.cells[h].j < tiling.cells[k].j
        /\ Range(tiling.urls) \cup FailedCells = 0..(tiling.idx - 1)
        /\ Range(tiling.urls) \cap FailedCells = {}
        /\ Increasing(tiling.urls) /\ Increasing(tiling.errors)
        /\ tiling.url_file = "written" => tiling.idx = Len(tiling.cells)

\* An export over several cells is written in which a cell failed and a
\* later cell gave its URL.
C22_Witness ==
    /\ tiling.multi_calls = 1 /\ tiling.url_file = "written"
    /\ \E k \in FailedCells : \E u \in Range(tiling.urls) : u > k

\* The remote evaluations that are running, by task and job.
InFlight ==
    {<<t, k>> \in (DOMAIN tasks) \X (1..attempts) :
        k \in DOMAIN tasks[t].jobs /\ tasks[t].jobs[k] = "running"}

\* C23: with any number of background tasks queued or running, at most one
\* remote materialization is in flight at any moment.
C23_OneMaterializationInFlight == Cardinality(InFlight) <= 1

\* The attempt of task t that result.get waits for has not succeeded: it is
\* still queued or running when the wait ends, or it answered with an error.
AttemptNotOk(t) == tasks[t].jobs[tasks[t].attempt + 1] # "ok"

\* C24: in both wrappers an attempt that timed out or whose remote evaluation
\* returned an error counts as failed: its failure message is reported, the
\* wrapper goes to the except branch (which retries while attempts are left),
\* and no layer is added on the strength of it.
C24_FailedAttemptCounts ==
    [][\A t \in DOMAIN tasks :
          (tasks[t].pc = "get" /\ tasks'[t].pc # "get" /\ AttemptNotOk(t)) =>
              /\ tasks'[t].pc = "failed"
              /\ tasks'[t].layer_adds = tasks[t].layer_adds
              /\ m'.output_widget = Append(m.output_widget, AttemptText(tasks[t].attempt))]_vars

\* Task t returns after its last attempt failed.
Exhausts(t) ==
    /\ t \in DOMAIN tasks /\ t \in DOMAIN tasks'
    /\ tasks[t].pc = "terminal" /\ tasks'[t].pc = "done"
    /\ tasks'[t].outcome = "exhausted"

\* C25: when the background load of a variable or feature has exhausted its
\* attempts, the name is not in m.aliases / m.features.
C25_FailedAddLeavesNoName ==
    [][\A t \in 1..MaxTasks :
          Exhausts(t) =>
              /\ tasks[t].kind = "alias" => tasks[t].alias \notin Keys(m'.aliases)
              /\ tasks[t].kind = "feature" => tasks[t].alias \notin Keys(m'.features)]_vars

\* The features whose expression does not reference alias a.
NotReferencing(features, a) ==
    LET keeps(f) == ~Contains(f.expression, a) IN SelectSeq(features, keeps)

\* C26: remove_alias(a, m) removes a from m.aliases and exactly the features
\* whose expression references a; the other aliases and features stay as
\* they are, whatever other aliases are present.
C26_RemoveAliasExactly ==
    [][(last'.op = "remove_alias" /\ ~last'.raised) =>
          \E a \in Keys(m.aliases) :
              /\ m'.aliases = Del(m.aliases, a)
              /\ m'.features = NotReferencing(m.features, a)]_vars

\* The map layers that the loads of aliases added.
AliasLayers(mm) == {l \in mm.layers : l.of = "alias"}

\* C27: remove_feature(f, m) leaves m.aliases and the map layer of every
\* alias unchanged, also when f has the name of an alias.
C27_RemoveFeatureKeepsAliases ==
    [][(last'.op = "remove_feature" /\ ~last'.raised) =>
          /\ m'.aliases = m.aliases
          /\ AliasLayers(m') = AliasLayers(m)]_vars

\* The map object but for its message log.
WithoutLog(mm) == [mm EXCEPT !.output_widget = <<>>]

\* C28: import_spec is all-or-nothing: when it does not load the spec, no
\* session field, region, layer or widget has been changed.
C28_ImportAllOrNothing ==
    [][(last'.op = "import_spec" /\ last'.outcome # "loaded") =>
          WithoutLog(m') = WithoutLog(m)]_vars

\* The messages task t has appended and has yet to clear.
Pending(t) ==
    (IF tasks[t].pc \in {"loop", "get", "failed", "added"}
     THEN {LoadingText(tasks[t].alias)} ELSE {})
    \cup (IF tasks[t].pc = "failed" THEN {AttemptText(tasks[t].attempt)} ELSE {})
    \cup (IF tasks[t].pc = "terminal" THEN {ConsiderText} ELSE {})

\* C29: with two operations running side by side, a message an operation
\* appended stays in the log until that operation's own clearing call,
\* also when the other operation clears a message of the same text.
C29_ClearRemovesOwnEntryOnly ==
    \A t \in DOMAIN tasks : Pending(t) \subseteq Range(m.output_widget)

====
